---------------------------- MODULE Spec2Model ----------------------------
(***************************************************************************)
(* A model of map_downloader.py: the command line entry point main, the    *)
(* per zoom level driver download_tiles_by_latlon_range / download_tiles,  *)
(* the tile fetcher download_tile and the mosaic assembler mosaic_tiles.   *)
(*                                                                         *)
(* The program is one sequential process; pc is its position.  The file    *)
(* system is the pair tile_files / mosaic_files, both partial functions    *)
(* from a path to the content of the file at that path.  The clock is      *)
(* elapsed = int(time.monotonic() - begin_time), the whole seconds since   *)
(* download_tiles began, which is all the program reads of the clock.      *)
(* Time passes only while the program sleeps or waits for the answer of an *)
(* HTTP request; local computation is instant.                             *)
(***************************************************************************)
EXTENDS Integers, Sequences, FiniteSets, TLC

(***************************************************************************)
(* Bounds of the model.                                                    *)
(***************************************************************************)
MaxPeriod == 3        \* work_time + sleep_time = MaxPeriod (seconds), both >= 1
MaxElapsed == 4       \* the clock is followed up to MaxElapsed seconds
MaxLatency == 1       \* a request is answered within 0..MaxLatency seconds
MaxChunks == 2        \* a response body has MaxChunks chunks of 1024 bytes
MaxRuns == 2          \* the command is run at most MaxRuns times in a row
MaxHttpErrors == 1    \* the server answers at most MaxHttpErrors GETs with an error status
MaxCounted == 14      \* the requests of one call are counted up to MaxCounted

(***************************************************************************)
(* Program constants.                                                      *)
(***************************************************************************)
MaxWaitTime == 3600   \* 1 * 60 * 60, the cap of the backoff
MercatorScale == 100000 \* the unit of MercatorOrdinate is 1 / MercatorScale
TileSize == 256        \* the side of a tile in pixels

\* The command line arguments are drawn from these sets.
ZoomLevels == {0, 1}
LonValues == {-180, 0}
LatValues == {0, 85}

\* The keys of URL_PATTERN_DICT, lines 20-25.
URL_PATTERN_DICT == {"esri.satellite", "google.road", "google.satellite", "openstreetmap"}

\* The value of provider after lines 251-256: the name given with --provider,
\* or "dict" for the dict built from --url when the name is not a key.
Providers == {"google.road", "my.tiles", "dict"}

\* Command line arguments that the assertions of lines 201-207 reject.
BadLon == 200
BadLat == 95
BadZoom == -1

VARIABLES
    pc,             \* position of the process
    run,            \* number of the current run of the command
    work_time, sleep_time,                  \* module globals, lines 42-43
    longitude_min, longitude_max, latitude_min, latitude_max,
    z_min, z_max, mosaic, provider,         \* command line arguments
    z,              \* loop variable of main
    rect,           \* [x_min, x_max, y_min, y_max] of download_tiles
    index,          \* loop variable of download_tiles
    x, y,           \* arguments of the current download_tile call
    elapsed,        \* int(time.monotonic() - begin_time), in seconds
    wait_time,      \* backoff of download_tile, in seconds
    response,       \* the response object of download_tile
    tile_files,     \* path <<z, x, y>> -> content of the tile file
    mosaic_files,   \* path <<kind, z, rect>> -> content
    callStart,      \* elapsed when the current download_tile call began
    lastReq,        \* elapsed when the current call last issued a GET (if requests > 0)
    requests,       \* number of GETs the current call has issued
    existedAtCall,  \* whether the tile file existed when the call began
    callSeq,        \* the (x, y) of the download_tile calls of this download_tiles
    returned,       \* keys for which some download_tile call has returned
    fetched,        \* zoom levels whose fetch loop has finished in this run
    mosaicked,      \* zoom levels whose mosaic_tiles has returned in this run
    levels,         \* zoom levels completed in this run, in order
    transformed,    \* outcome of gdaltransform in the current mosaic_tiles
    translated      \* outcome of gdal_translate in the current mosaic_tiles

inputs == <<work_time, sleep_time, longitude_min, longitude_max,
            latitude_min, latitude_max, z_min, z_max, mosaic, provider>>
locals == <<z, rect, index, x, y, elapsed, wait_time, response>>
files == <<tile_files, mosaic_files>>
callHist == <<callStart, lastReq, requests, existedAtCall>>
runHist == <<callSeq, fetched, mosaicked, levels>>
toolHist == <<transformed, translated>>
vars == <<pc, run, inputs, locals, files, callHist, runHist, returned, toolHist>>


(***************************************************************************)
(* Pure helpers.                                                           *)
(***************************************************************************)
Min(a, b) == IF a <= b THEN a ELSE b

RECURSIVE Pow2(_)
Pow2(n) == IF n = 0 THEN 1 ELSE 2 * Pow2(n - 1)

\* (1 - ln(tan(lat) + 1 / cos(lat)) / pi) / 2 of line 50, in units of
\* 1 / MercatorScale, rounded down, for the latitudes (degrees) of the model.
MercatorOrdinate(latitude) ==
    CASE latitude = 85 -> 163
      [] latitude = 0 -> 50000
      [] latitude = -85 -> 99836

\* latlon2tile, lines 46-52: floor(((longitude + 180) / 360) * n) and
\* floor(ordinate * n), n = 2^z.
TileX(longitude, zoom) == ((longitude + 180) * Pow2(zoom)) \div 360
TileY(latitude, zoom) == (MercatorOrdinate(latitude) * Pow2(zoom)) \div MercatorScale

\* The loop condition of line 67, e = int(time.monotonic() - begin_time).
GateBlocks(e) == (e % (work_time + sleep_time)) > work_time

\* A backoff that doubles without a cap.
NextWaitTimeUncapped(w) == w * 2

\* wait_time = min(wait_time * 2, 1 * 60 * 60), line 91.
NextWaitTime(w) == Min(w * 2, MaxWaitTime)

\* The assertions of download_tiles_by_latlon_range, lines 201-207.
LatlonAsserts(zoom) ==
    /\ -180 <= longitude_min /\ longitude_min <= 180
    /\ -180 <= longitude_max /\ longitude_max <= 180
    /\ -90 <= latitude_min /\ latitude_min <= 90
    /\ -90 <= latitude_max /\ latitude_max <= 90
    /\ longitude_min <= longitude_max
    /\ latitude_min <= latitude_max
    /\ 0 <= zoom

\* The assertions of download_tiles and mosaic_tiles, lines 171-177, 105-111.
RectAsserts(r, zoom) ==
    /\ 0 <= r.x_min /\ 0 <= r.x_max /\ 0 <= r.y_min /\ 0 <= r.y_max
    /\ r.x_min <= r.x_max /\ r.y_min <= r.y_max
    /\ 0 <= zoom

\* Lines 179-181.
XCount(r) == r.x_max - r.x_min + 1
YCount(r) == r.y_max - r.y_min + 1
TotalCount(r) == XCount(r) * YCount(r)

\* A row index taken with the wrong count.
IndexYByYCount(r, i) == r.y_min + (i \div YCount(r))

\* A column index that advances once per column of YCount cells.
IndexXByColumn(r, i) == r.x_min + (i \div YCount(r))

\* Lines 192-193: the tile of a loop index.
IndexX(r, i) == r.x_min + (i % XCount(r))
IndexY(r, i) == r.y_min + (i \div XCount(r))

\* The paths of lines 73, 133, 140 and 167.
TilePath(zoom, tx, ty) == <<zoom, tx, ty>>
MosaicPath(zoom, r) == <<"mosaic", zoom, r.x_min, r.x_max, r.y_min, r.y_max>>
TempPath(zoom, r) == <<"temp", zoom, r.x_min, r.x_max, r.y_min, r.y_max>>
SidecarPath(zoom, r) == <<"latlonbound", zoom, r.x_min, r.x_max, r.y_min, r.y_max>>

\* os.path.exists
TileExists(p) == p \in DOMAIN tile_files
MosaicExists(p) == p \in DOMAIN mosaic_files

\* A removal that leaves the file in place.
RemoveNothing(fs, p) == fs

\* Writing, renaming and removing files.
WriteFile(fs, p, content) == [q \in DOMAIN fs \cup {p} |-> IF q = p THEN content ELSE fs[q]]
RemoveFile(fs, p) == [q \in DOMAIN fs \ {p} |-> fs[q]]
RenameFile(fs, from, to) == RemoveFile(WriteFile(fs, to, fs[from]), from)

\* The empty file system.
NoFiles == [q \in {} |-> q]

NoRect == [x_min |-> 0, x_max |-> 0, y_min |-> 0, y_max |-> 0]
NoResponse == [status |-> "none", chunks |-> 0]
\* No external tool has run yet in the current mosaic_tiles.
NoTransform == [exit |-> "none", output |-> "none"]
NoTranslate == [exit |-> "none", wrote |-> "none"]

\* The positions of the process inside download_tile.
InDownloadTile ==
    pc \in {"dt_gate", "dt_exists", "dt_request", "dt_backoff", "dt_open", "dt_write",
            "dt_return"}
\* The positions of the process inside mosaic_tiles.
InMosaicTiles ==
    pc \in {"ms_compose", "ms_rename", "ms_transform", "ms_fallback", "ms_translate",
            "ms_remove", "ms_sidecar", "ms_return"}
Stopped == pc \in {"done", "aborted", "killed"}

(***************************************************************************)
(* The initial state: the command line and the two duty-cycle globals are  *)
(* drawn from the bounded sets, the file system is empty.                  *)
(***************************************************************************)
Init ==
    /\ pc = "main"
    /\ run = 1
    /\ work_time \in 1..(MaxPeriod - 1)
    /\ sleep_time = MaxPeriod - work_time
    /\ longitude_min \in LonValues /\ longitude_max \in LonValues
    /\ latitude_min \in LatValues /\ latitude_max \in LatValues
    /\ z_min \in ZoomLevels /\ z_max \in ZoomLevels
    /\ mosaic \in BOOLEAN
    /\ provider = "google.road"
    /\ z = 0 /\ rect = NoRect /\ index = 0 /\ x = 0 /\ y = 0
    /\ elapsed = 0 /\ wait_time = 1 /\ response = NoResponse
    /\ tile_files = NoFiles /\ mosaic_files = NoFiles
    /\ callStart = 0 /\ lastReq = 0 /\ requests = 0 /\ existedAtCall = FALSE
    /\ callSeq = <<>> /\ fetched = {} /\ mosaicked = {} /\ levels = <<>>
    /\ returned = {}
    /\ transformed = NoTransform /\ translated = NoTranslate

(***************************************************************************)
(* main, lines 233-261.                                                    *)
(***************************************************************************)
\* Line 258, the first value of range(z_min, z_max + 1).
MainStart ==
    /\ pc = "main"
    /\ z' = z_min
    /\ pc' = "main_loop"
    /\ UNCHANGED <<run, inputs, rect, index, x, y, elapsed, wait_time, response,
                   files, callHist, runHist, returned, toolHist>>

\* Lines 258-259: the next zoom level is handed to download_tiles_by_latlon_range.
MainLoop ==
    /\ pc = "main_loop"
    /\ z <= z_max
    /\ pc' = "by_latlon"
    /\ UNCHANGED <<run, inputs, locals, files, callHist, runHist, returned, toolHist>>

\* Line 261: the loop is over, "Done." is logged.
MainDone ==
    /\ pc = "main_loop"
    /\ z > z_max
    /\ pc' = "done"
    /\ UNCHANGED <<run, inputs, locals, files, callHist, runHist, returned, toolHist>>

(***************************************************************************)
(* download_tiles_by_latlon_range, lines 200-211.                          *)
(***************************************************************************)
LatlonRect(zoom) ==
    [x_min |-> TileX(longitude_min, zoom), y_min |-> TileY(latitude_max, zoom),
     x_max |-> TileX(longitude_max, zoom), y_max |-> TileY(latitude_min, zoom)]

ByLatlonRange ==
    /\ pc = "by_latlon"
    /\ IF LatlonAsserts(z)
         THEN /\ rect' = LatlonRect(z)
              /\ pc' = "download_tiles"
         ELSE /\ pc' = "aborted"
              /\ UNCHANGED rect
    /\ UNCHANGED <<run, inputs, z, index, x, y, elapsed, wait_time, response,
                   files, callHist, runHist, returned, toolHist>>

(***************************************************************************)
(* download_tiles, lines 170-197.                                          *)
(***************************************************************************)
\* Lines 171-185: the assertions, the counts and begin_time.
DownloadTilesBegin ==
    /\ pc = "download_tiles"
    /\ IF RectAsserts(rect, z)
         THEN /\ index' = 0
              /\ elapsed' = 0
              /\ callSeq' = <<>>
              /\ pc' = "dts_loop"
         ELSE /\ pc' = "aborted"
              /\ UNCHANGED <<index, elapsed, callSeq>>
    /\ UNCHANGED <<run, inputs, z, rect, x, y, wait_time, response, files, callHist,
                   fetched, mosaicked, levels, returned, toolHist>>

\* Lines 191-194: the next index calls download_tile.
DownloadTilesCall ==
    /\ pc = "dts_loop"
    /\ index < TotalCount(rect)
    /\ x' = IndexX(rect, index)
    /\ y' = IndexY(rect, index)
    /\ callSeq' = Append(callSeq, <<IndexX(rect, index), IndexY(rect, index)>>)
    /\ callStart' = elapsed
    /\ lastReq' = 0
    /\ requests' = 0
    /\ existedAtCall' = TileExists(TilePath(z, IndexX(rect, index), IndexY(rect, index)))
    /\ pc' = "dt_gate"
    /\ UNCHANGED <<run, inputs, z, rect, index, elapsed, wait_time, response, files,
                   fetched, mosaicked, levels, returned, toolHist>>

\* The position after the fetch loop, lines 196-197.
AfterFetchLoop == IF mosaic THEN "ms_compose" ELSE "level_end"

\* Lines 191, 196: the loop is over; mosaic_tiles is called when asked for.
DownloadTilesLoopEnd ==
    /\ pc = "dts_loop"
    /\ index >= TotalCount(rect)
    /\ fetched' = fetched \cup {z}
    /\ transformed' = NoTransform
    /\ translated' = NoTranslate
    /\ pc' = AfterFetchLoop
    /\ UNCHANGED <<run, inputs, locals, files, callHist, callSeq, mosaicked, levels,
                   returned>>

\* A zoom loop that steps over every other level.
NextZoomSkipping(zoom) == zoom + 2

\* Line 258: the next value of range(z_min, z_max + 1).
NextZoom(zoom) == zoom + 1

\* download_tiles and download_tiles_by_latlon_range return to the loop of main.
DownloadTilesReturn ==
    /\ pc = "level_end"
    /\ levels' = Append(levels, z)
    /\ z' = NextZoom(z)
    /\ pc' = "main_loop"
    /\ UNCHANGED <<run, inputs, rect, index, x, y, elapsed, wait_time, response,
                   files, callHist, callSeq, fetched, mosaicked, returned, toolHist>>


(***************************************************************************)
(* download_tile, lines 66-96.                                             *)
(***************************************************************************)
\* The clock is followed up to MaxElapsed seconds.
InTime(t) == t <= MaxElapsed

\* A download_tile that never finds its tile cached.
SkipNever(p) == FALSE

\* Line 74: the call returns at once when the tile file exists.
SkipCached(p) == TileExists(p)

\* A download_tile that gives the tile up when the request fails.
GiveUpAfterException == "dt_return"

\* Line 87: where a failed requests.get leads.
AfterException == "dt_backoff"

\* What requests.get can do: answer 200 with the tile, answer with an HTTP
\* error status and an error body (no exception is raised for that: the code
\* never looks at the status), or raise (connection error, timeout, ...).
GetOutcomes == {"ok", "http_error", "exception"}

\* The error bodies the server has sent so far are the ones in the tile store.
HttpErrors == Cardinality({p \in DOMAIN tile_files : tile_files[p].status = "http_error"})

\* Lines 67-68: the duty-cycle gate sleeps one second.
DtGateSleep ==
    /\ pc = "dt_gate"
    /\ GateBlocks(elapsed)
    /\ InTime(elapsed + 1)
    /\ elapsed' = elapsed + 1
    /\ UNCHANGED <<pc, run, inputs, z, rect, index, x, y, wait_time, response, files,
                   callHist, runHist, returned, toolHist>>

\* Lines 70-71: a dict carries its patterns, a name is looked up.
ProviderResolves == provider = "dict" \/ provider \in URL_PATTERN_DICT

\* Lines 67-71: the gate lets the call through, and the patterns of the
\* provider are looked up (KeyError for a name that is not a key).
DtGatePass ==
    /\ pc = "dt_gate"
    /\ ~GateBlocks(elapsed)
    /\ pc' = IF ProviderResolves THEN "dt_exists" ELSE "aborted"
    /\ UNCHANGED <<run, inputs, locals, files, callHist, runHist, returned, toolHist>>

\* Lines 73-75: the tile is cached.
DtSkipCached ==
    /\ pc = "dt_exists"
    /\ SkipCached(TilePath(z, x, y))
    /\ pc' = "dt_return"
    /\ UNCHANGED <<run, inputs, locals, files, callHist, runHist, returned, toolHist>>

\* Lines 77-82: the tile is not cached.
DtPrepare ==
    /\ pc = "dt_exists"
    /\ ~SkipCached(TilePath(z, x, y))
    /\ wait_time' = 1
    /\ pc' = "dt_request"
    /\ UNCHANGED <<run, inputs, z, rect, index, x, y, elapsed, response, files,
                   callHist, runHist, returned, toolHist>>

\* Lines 84-87: requests.get is issued now and answers or raises after the
\* latency.
DtRequest ==
    /\ pc = "dt_request"
    /\ \E outcome \in GetOutcomes, latency \in 0..MaxLatency :
          /\ InTime(elapsed + latency)
          /\ outcome = "http_error" => HttpErrors < MaxHttpErrors
          /\ elapsed' = elapsed + latency
          /\ IF outcome = "exception"
               THEN /\ pc' = AfterException
                    /\ UNCHANGED response
               ELSE /\ response' = [status |-> outcome, chunks |-> MaxChunks]
                    /\ pc' = "dt_open"
    /\ lastReq' = elapsed
    /\ requests' = requests + 1
    /\ UNCHANGED <<run, inputs, z, rect, index, x, y, wait_time, files, callStart,
                   existedAtCall, runHist, returned, toolHist>>

\* Lines 88-91: the backoff sleep and the doubling of wait_time.
DtBackoff ==
    /\ pc = "dt_backoff"
    /\ InTime(elapsed + wait_time)
    /\ elapsed' = elapsed + wait_time
    /\ wait_time' = NextWaitTime(wait_time)
    /\ pc' = "dt_request"
    /\ UNCHANGED <<run, inputs, z, rect, index, x, y, response, files, callHist,
                   runHist, returned, toolHist>>

\* Line 93: open(file_name, "wb") creates the file, empty.
DtOpen ==
    /\ pc = "dt_open"
    /\ tile_files' = WriteFile(tile_files, TilePath(z, x, y),
                               [status |-> response.status, written |-> 0,
                                chunks |-> response.chunks])
    /\ pc' = "dt_write"
    /\ UNCHANGED <<run, inputs, locals, mosaic_files, callHist, runHist, returned,
                   toolHist>>

\* Lines 94-96: one chunk of the body is written.
DtWriteChunk ==
    /\ pc = "dt_write"
    /\ tile_files[TilePath(z, x, y)].written < response.chunks
    /\ tile_files' = [tile_files EXCEPT ![TilePath(z, x, y)].written = @ + 1]
    /\ UNCHANGED <<pc, run, inputs, locals, mosaic_files, callHist, runHist, returned,
                   toolHist>>

\* Lines 93-96: the body is written, the file is closed.
DtClose ==
    /\ pc = "dt_write"
    /\ tile_files[TilePath(z, x, y)].written >= response.chunks
    /\ response' = NoResponse
    /\ pc' = "dt_return"
    /\ UNCHANGED <<run, inputs, z, rect, index, x, y, elapsed, wait_time, files,
                   callHist, runHist, returned, toolHist>>

\* download_tile returns to the loop of download_tiles, line 191.
DtReturn ==
    /\ pc = "dt_return"
    /\ returned' = returned \cup {TilePath(z, x, y)}
    /\ index' = index + 1
    /\ wait_time' = 1
    /\ callStart' = 0 /\ lastReq' = 0 /\ requests' = 0 /\ existedAtCall' = FALSE
    /\ pc' = "dts_loop"
    /\ UNCHANGED <<run, inputs, z, rect, x, y, elapsed, response, files, runHist,
                   toolHist>>

(***************************************************************************)
(* mosaic_tiles, lines 104-167.                                            *)
(***************************************************************************)
\* A decoder that accepts every file.
DecodableAlways(content) == content.status # "none"

\* PIL.Image.open and paste succeed on a complete image; an error body and a
\* truncated file raise, lines 125-131.
Decodable(content) == content.status = "ok" /\ content.written = content.chunks

\* Lines 121-131: the cells pasted into the raster, each at its pixel offset.
PastedCells(zoom, r) ==
    {[at |-> <<TileSize * (tx - r.x_min), TileSize * (ty - r.y_min)>>, tile |-> <<tx, ty>>] :
        <<tx, ty>> \in {c \in (r.x_min..r.x_max) \X (r.y_min..r.y_max) :
                          /\ TileExists(TilePath(zoom, c[1], c[2]))
                          /\ Decodable(tile_files[TilePath(zoom, c[1], c[2])])}}

\* Lines 116-117: the size of the raster.
RasterSize(r) == <<XCount(r) * TileSize, YCount(r) * TileSize>>

\* Lines 142-143: the arguments of the two tile2latlon calls whose results are
\* the lat/lon bound of the sidecar file.
BoundCorners(zoom, r) == <<r.x_min, r.y_min, r.x_max + 1, r.y_max + 1, zoom>>

\* What gdaltransform can do (line 153): os.system returns its exit status,
\* which the code drops; a missing tool leaves output.txt empty.
TransformOutcomes ==
    {o \in [exit : {"zero", "nonzero", "missing"}, output : {"two_pairs", "unparseable"}] :
        o.exit = "missing" => o.output = "unparseable"}

\* Lines 154-159: reading output.txt raises unless it holds two pairs.
TransformRaises(o) == o.output # "two_pairs"

\* What gdal_translate can do (line 165): write the georeferenced mosaic, or
\* fail and leave nothing or a truncated file at the mosaic path.
TranslateOutcomes ==
    {o \in [exit : {"zero", "nonzero", "missing"}, wrote : {"full", "partial", "nothing"}] :
        /\ o.exit = "zero" => o.wrote = "full"
        /\ o.exit = "missing" => o.wrote = "nothing"
        /\ o.exit = "nonzero" => o.wrote # "full"}

\* Lines 105-137: the assertions, the compositing loop and mosaic_image.save.
MsCompose ==
    /\ pc = "ms_compose"
    /\ IF RectAsserts(rect, z)
         THEN /\ mosaic_files' = WriteFile(mosaic_files, MosaicPath(z, rect),
                                           [kind |-> "untagged", size |-> RasterSize(rect),
                                            cells |-> PastedCells(z, rect)])
              /\ pc' = "ms_rename"
         ELSE /\ pc' = "aborted"
              /\ UNCHANGED mosaic_files
    /\ UNCHANGED <<run, inputs, locals, tile_files, callHist, runHist, returned, toolHist>>

\* Lines 139-141: the raster is renamed to the temporary path.
MsRename ==
    /\ pc = "ms_rename"
    /\ mosaic_files' = RenameFile(mosaic_files, MosaicPath(z, rect), TempPath(z, rect))
    /\ pc' = "ms_transform"
    /\ UNCHANGED <<run, inputs, locals, tile_files, callHist, runHist, returned, toolHist>>

\* Lines 145-158: gdaltransform runs and its output is read.
MsTransform ==
    /\ pc = "ms_transform"
    /\ \E o \in TransformOutcomes :
          /\ transformed' = o
          /\ pc' = IF TransformRaises(o) THEN "ms_fallback" ELSE "ms_translate"
    /\ UNCHANGED <<run, inputs, locals, files, callHist, runHist, returned, translated>>

\* Lines 159-160: the exception handler renames the raster back.
MsFallback ==
    /\ pc = "ms_fallback"
    /\ mosaic_files' = RenameFile(mosaic_files, TempPath(z, rect), MosaicPath(z, rect))
    /\ pc' = "ms_return"
    /\ UNCHANGED <<run, inputs, locals, tile_files, callHist, runHist, returned, toolHist>>

\* Lines 162-165: gdal_translate runs; its exit status is dropped.
MsTranslate ==
    /\ pc = "ms_translate"
    /\ \E o \in TranslateOutcomes :
          /\ translated' = o
          /\ mosaic_files' =
                IF o.wrote = "nothing" THEN mosaic_files
                ELSE WriteFile(mosaic_files, MosaicPath(z, rect),
                               [kind |-> IF o.wrote = "full" THEN "tagged" ELSE "truncated",
                                size |-> mosaic_files[TempPath(z, rect)].size,
                                cells |-> mosaic_files[TempPath(z, rect)].cells])
    /\ pc' = "ms_remove"
    /\ UNCHANGED <<run, inputs, locals, tile_files, callHist, runHist, returned, transformed>>

\* Line 166: the temporary file is removed.
MsRemove ==
    /\ pc = "ms_remove"
    /\ mosaic_files' = RemoveFile(mosaic_files, TempPath(z, rect))
    /\ pc' = "ms_sidecar"
    /\ UNCHANGED <<run, inputs, locals, tile_files, callHist, runHist, returned, toolHist>>

\* Line 167: the sidecar file is written (the line belongs to the else branch).
MsSidecar ==
    /\ pc = "ms_sidecar"
    /\ mosaic_files' = WriteFile(mosaic_files, SidecarPath(z, rect),
                                 [kind |-> "latlonbound", size |-> <<0, 0>>,
                                  cells |-> {BoundCorners(z, rect)}])
    /\ pc' = "ms_return"
    /\ UNCHANGED <<run, inputs, locals, tile_files, callHist, runHist, returned, toolHist>>

\* mosaic_tiles returns to download_tiles, line 197.
MsReturn ==
    /\ pc = "ms_return"
    /\ mosaicked' = mosaicked \cup {z}
    /\ transformed' = NoTransform
    /\ translated' = NoTranslate
    /\ pc' = "level_end"
    /\ UNCHANGED <<run, inputs, locals, files, callHist, callSeq, fetched, levels, returned>>

(***************************************************************************)
(* The environment: the process is terminated from outside, and the same   *)
(* command is run again on the file system the last run left.              *)
(***************************************************************************)
\* The state of a process that has ended: nothing of it is left but the files.
Reset ==
    /\ z' = 0 /\ rect' = NoRect /\ index' = 0 /\ x' = 0 /\ y' = 0
    /\ elapsed' = 0 /\ wait_time' = 1 /\ response' = NoResponse
    /\ callStart' = 0 /\ lastReq' = 0 /\ requests' = 0 /\ existedAtCall' = FALSE
    /\ callSeq' = <<>> /\ fetched' = {} /\ mosaicked' = {} /\ levels' = <<>>
    /\ transformed' = NoTransform /\ translated' = NoTranslate

\* The process is terminated at any position; a run that is not followed by
\* another one is not worth terminating.
Kill ==
    /\ ~Stopped
    /\ run < MaxRuns
    /\ pc' = "killed"
    /\ Reset
    /\ UNCHANGED <<run, inputs, files, returned>>

\* The same command line is run again.
Rerun ==
    /\ Stopped
    /\ run < MaxRuns
    /\ run' = run + 1
    /\ pc' = "main"
    /\ Reset
    /\ UNCHANGED <<inputs, files, returned>>

\* The steps of main, download_tiles_by_latlon_range, download_tiles and
\* download_tile.
Fetching ==
    \/ MainStart \/ MainLoop \/ MainDone
    \/ ByLatlonRange
    \/ DownloadTilesBegin \/ DownloadTilesCall \/ DownloadTilesLoopEnd \/ DownloadTilesReturn
    \/ DtGateSleep \/ DtGatePass \/ DtSkipCached \/ DtPrepare \/ DtRequest \/ DtBackoff
    \/ DtOpen \/ DtWriteChunk \/ DtClose \/ DtReturn

\* The steps of mosaic_tiles.
Mosaicking ==
    \/ MsCompose \/ MsRename \/ MsTransform \/ MsFallback \/ MsTranslate \/ MsRemove
    \/ MsSidecar \/ MsReturn

\* Runs of the command, the first from an empty output tree, the next ones
\* from the output tree the run before left when it ended.
Next == Fetching \/ Mosaicking \/ Rerun

Spec == Init /\ [][Next]_vars

\* Runs of the command without --mosaic that may be terminated from outside
\* and run again on the output tree they left.
InitRerun == Init /\ mosaic = FALSE

NextRerun == Fetching \/ Kill \/ Rerun

SpecRerun == InitRerun /\ [][NextRerun]_vars

\* The command is run again with other longitudes or the same ones, on the
\* output tree the run before left: the rectangles of the two runs overlap,
\* contain one another or are the same.
RerunOther ==
    /\ Stopped
    /\ run < MaxRuns
    /\ run' = run + 1
    /\ pc' = "main"
    /\ Reset
    /\ longitude_min' \in LonValues /\ longitude_max' \in LonValues
    /\ UNCHANGED <<work_time, sleep_time, latitude_min, latitude_max, z_min, z_max,
                   mosaic, provider, files, returned>>

NextOverlap == Fetching \/ Mosaicking \/ Kill \/ RerunOther

\* Command lines whose rectangles are one tile high.
InitOverlap == Init /\ latitude_min = latitude_max

SpecOverlap == InitOverlap /\ [][NextOverlap]_vars

\* The clock as the gate of line 67 reads it: int(elapsed) modulo the period.
Wrap(e) == e % (work_time + sleep_time)

\* DtGateSleep on the wrapped clock.
CyclicGateSleep ==
    /\ pc = "dt_gate"
    /\ GateBlocks(elapsed)
    /\ elapsed' = Wrap(elapsed + 1)
    /\ UNCHANGED <<pc, run, inputs, z, rect, index, x, y, wait_time, response, files,
                   callHist, runHist, returned, toolHist>>

\* DtRequest on the wrapped clock; the requests of a call are counted up to
\* MaxCounted.
CyclicRequest ==
    /\ pc = "dt_request"
    /\ \E outcome \in GetOutcomes, latency \in 0..MaxLatency :
          /\ outcome = "http_error" => HttpErrors < MaxHttpErrors
          /\ elapsed' = Wrap(elapsed + latency)
          /\ IF outcome = "exception"
               THEN /\ pc' = AfterException
                    /\ UNCHANGED response
               ELSE /\ response' = [status |-> outcome, chunks |-> MaxChunks]
                    /\ pc' = "dt_open"
    /\ lastReq' = elapsed
    /\ requests' = Min(requests + 1, MaxCounted)
    /\ UNCHANGED <<run, inputs, z, rect, index, x, y, wait_time, files, callStart,
                   existedAtCall, runHist, returned, toolHist>>

\* requests.get returns a response.
CyclicRequestAnswered == CyclicRequest /\ pc' = "dt_open"

\* DtBackoff on the wrapped clock.
CyclicBackoff ==
    /\ pc = "dt_backoff"
    /\ elapsed' = Wrap(elapsed + wait_time)
    /\ wait_time' = NextWaitTime(wait_time)
    /\ pc' = "dt_request"
    /\ UNCHANGED <<run, inputs, z, rect, index, x, y, response, files, callHist,
                   runHist, returned, toolHist>>

\* The output tree of an earlier run that fetched the tile of zoom level 0.
EarlierTree ==
    [p \in {TilePath(0, 0, 0)} |-> [status |-> "ok", written |-> MaxChunks, chunks |-> MaxChunks]]

\* A command line that passes the assertions of lines 201-207, run on an empty
\* output tree or on the output tree of an earlier run.
InitLive ==
    /\ pc = "main"
    /\ run = 1
    /\ work_time \in 1..(MaxPeriod - 1)
    /\ sleep_time = MaxPeriod - work_time
    /\ longitude_min \in LonValues /\ longitude_max \in LonValues
    /\ latitude_min \in LatValues /\ latitude_max \in LatValues
    /\ longitude_min <= longitude_max
    /\ latitude_min <= latitude_max
    /\ z_min \in ZoomLevels /\ z_max \in ZoomLevels
    /\ mosaic \in BOOLEAN
    /\ provider = "google.road"
    /\ z = 0 /\ rect = NoRect /\ index = 0 /\ x = 0 /\ y = 0
    /\ elapsed = 0 /\ wait_time = 1 /\ response = NoResponse
    /\ tile_files \in {NoFiles, EarlierTree}
    /\ mosaic_files = NoFiles
    /\ callStart = 0 /\ lastReq = 0 /\ requests = 0 /\ existedAtCall = FALSE
    /\ callSeq = <<>> /\ fetched = {} /\ mosaicked = {} /\ levels = <<>>
    /\ returned = {}
    /\ transformed = NoTransform /\ translated = NoTranslate

\* The steps of a run whose retries are not limited by a time horizon.
NextLive ==
    \/ MainStart \/ MainLoop \/ MainDone
    \/ ByLatlonRange
    \/ DownloadTilesBegin \/ DownloadTilesCall \/ DownloadTilesLoopEnd \/ DownloadTilesReturn
    \/ CyclicGateSleep \/ DtGatePass \/ DtSkipCached \/ DtPrepare \/ CyclicRequest
    \/ CyclicBackoff \/ DtOpen \/ DtWriteChunk \/ DtClose \/ DtReturn
    \/ Mosaicking

\* The process keeps running, and requests.get does not raise for ever.
SpecLive ==
    /\ InitLive
    /\ [][NextLive]_vars
    /\ WF_vars(NextLive)
    /\ SF_vars(CyclicRequestAnswered)

\* Any command line: coordinates in and out of range, in order and inverted,
\* zoom levels negative or not, a provider that is a key of URL_PATTERN_DICT,
\* a custom one with --url, or an unknown name without --url.
InitInput ==
    /\ pc = "main"
    /\ run = 1
    /\ work_time \in 1..(MaxPeriod - 1)
    /\ sleep_time = MaxPeriod - work_time
    /\ longitude_min \in LonValues \cup {BadLon}
    /\ longitude_max \in LonValues \cup {BadLon}
    /\ latitude_min \in LatValues \cup {BadLat}
    /\ latitude_max \in LatValues \cup {BadLat}
    /\ z_min \in ZoomLevels \cup {BadZoom}
    /\ z_max \in ZoomLevels \cup {BadZoom}
    /\ mosaic \in BOOLEAN
    /\ provider \in Providers
    /\ z = 0 /\ rect = NoRect /\ index = 0 /\ x = 0 /\ y = 0
    /\ elapsed = 0 /\ wait_time = 1 /\ response = NoResponse
    /\ tile_files = NoFiles /\ mosaic_files = NoFiles
    /\ callStart = 0 /\ lastReq = 0 /\ requests = 0 /\ existedAtCall = FALSE
    /\ callSeq = <<>> /\ fetched = {} /\ mosaicked = {} /\ levels = <<>>
    /\ returned = {}
    /\ transformed = NoTransform /\ translated = NoTranslate

SpecInput == InitInput /\ [][Next]_vars

\* Longitudes over the whole accepted range, both ends included, and zoom
\* levels for the computation of the rectangle.
GeoLons == {-180, -90, 0, 90, 180}
GeoZooms == 0..3

\* Command lines over the whole range of longitudes.
InitGeo ==
    /\ pc = "main"
    /\ run = 1
    /\ work_time \in 1..(MaxPeriod - 1)
    /\ sleep_time = MaxPeriod - work_time
    /\ longitude_min \in GeoLons /\ longitude_max \in GeoLons
    /\ latitude_min \in LatValues /\ latitude_max \in LatValues
    /\ z_min \in GeoZooms /\ z_max \in GeoZooms
    /\ mosaic \in BOOLEAN
    /\ provider = "google.road"
    /\ z = 0 /\ rect = NoRect /\ index = 0 /\ x = 0 /\ y = 0
    /\ elapsed = 0 /\ wait_time = 1 /\ response = NoResponse
    /\ tile_files = NoFiles /\ mosaic_files = NoFiles
    /\ callStart = 0 /\ lastReq = 0 /\ requests = 0 /\ existedAtCall = FALSE
    /\ callSeq = <<>> /\ fetched = {} /\ mosaicked = {} /\ levels = <<>>
    /\ returned = {}
    /\ transformed = NoTransform /\ translated = NoTranslate

\* The steps of a run up to its first download_tile call.
NextGeo ==
    \/ MainStart \/ MainLoop \/ MainDone
    \/ ByLatlonRange
    \/ DownloadTilesBegin \/ DownloadTilesCall

SpecGeo == InitGeo /\ [][NextGeo]_vars

\* The rectangles inside the grid of a zoom level.
GridRects(zoom) ==
    {r \in [x_min : 0..(Pow2(zoom) - 1), x_max : 0..(Pow2(zoom) - 1),
            y_min : 0..(Pow2(zoom) - 1), y_max : 0..(Pow2(zoom) - 1)] :
        r.x_min <= r.x_max /\ r.y_min <= r.y_max}

\* What a tile file can hold: the body of a 200 or of an error response, whole
\* or cut short (lines 88-96).
TileContents ==
    [status : {"ok", "http_error"}, written : 0..MaxChunks, chunks : {MaxChunks}]

\* The tile stores that hold files for some cells of a rectangle only.
PartialStores(zoom, r) ==
    UNION {[present -> TileContents] :
             present \in SUBSET {TilePath(zoom, c[1], c[2]) :
                                   c \in (r.x_min..r.x_max) \X (r.y_min..r.y_max)}}

\* mosaic_tiles (line 104) is called for a rectangle whose tiles are cached
\* in part, in full or not at all.
InitMosaic ==
    /\ pc = "ms_compose"
    /\ run = 1
    /\ work_time \in 1..(MaxPeriod - 1)
    /\ sleep_time = MaxPeriod - work_time
    /\ longitude_min = 0 /\ longitude_max = 0
    /\ latitude_min = 0 /\ latitude_max = 0
    /\ \E zoom \in ZoomLevels :
          /\ z_min = zoom /\ z_max = zoom /\ z = zoom
          /\ \E r \in GridRects(zoom) :
                /\ rect = r
                /\ index = TotalCount(r)
                /\ tile_files \in PartialStores(zoom, r)
    /\ mosaic = TRUE
    /\ provider = "google.road"
    /\ x = 0 /\ y = 0
    /\ elapsed = 0 /\ wait_time = 1 /\ response = NoResponse
    /\ mosaic_files = NoFiles
    /\ callStart = 0 /\ lastReq = 0 /\ requests = 0 /\ existedAtCall = FALSE
    /\ callSeq = <<>> /\ fetched = {} /\ mosaicked = {} /\ levels = <<>>
    /\ returned = {}
    /\ transformed = NoTransform /\ translated = NoTranslate

SpecMosaic == InitMosaic /\ [][Mosaicking]_vars


(***************************************************************************)
(* The properties.                                                         *)
(***************************************************************************)
Period == work_time + sleep_time

\* The idle portion of the duty cycle: elapsed mod (W + S) >= W.
IdleAt(e) == (e % Period) >= work_time

\* The first second after e at which the cycle is active again.
IdleEnd(e) == e - (e % Period) + Period

\* The cells of a rectangle.
Cells(r) == (r.x_min..r.x_max) \X (r.y_min..r.y_max)

\* A tile file that holds a whole response body.
Complete(content) == content.written = content.chunks

\* C1: a download_tile call that begins in the idle portion of the duty
\* cycle (elapsed mod (W + S) >= W) issues no request before the idle portion
\* has passed.
C1_GateAtFetchStart ==
    (InDownloadTile /\ IdleAt(callStart) /\ requests > 0) => lastReq >= IdleEnd(callStart)

\* C2: every GET of download_tile, the retries included, is issued in the
\* active portion of the duty cycle: elapsed mod (W + S) < W.
C2_NoRequestWhileIdle ==
    (InDownloadTile /\ requests > 0) => ~IdleAt(lastReq)

\* C3: when mosaic_tiles returns, the sidecar file with the lat/lon bound of
\* the rectangle has been written, whatever gdaltransform and gdal_translate did.
C3_SidecarAlwaysWritten ==
    pc = "ms_return" =>
        /\ MosaicExists(SidecarPath(z, rect))
        /\ mosaic_files[SidecarPath(z, rect)].cells = {BoundCorners(z, rect)}

\* One of the two external steps of the current mosaic_tiles call failed.
ExternalStepFailed ==
    \/ transformed # NoTransform /\ (transformed.exit # "zero" \/ transformed.output # "two_pairs")
    \/ translated # NoTranslate /\ translated.exit # "zero"

\* C4: when mosaic_tiles returns, a whole raster is at the mosaic path, and
\* it is the untagged composed raster when an external step failed.
C4_MosaicAlwaysPresent ==
    pc = "ms_return" =>
        /\ MosaicExists(MosaicPath(z, rect))
        /\ mosaic_files[MosaicPath(z, rect)].kind \in {"untagged", "tagged"}
        /\ ExternalStepFailed => mosaic_files[MosaicPath(z, rect)].kind = "untagged"

\* C5: a tile file that download_tile finds at its path, and skips as cached,
\* holds the whole response body, also after a run was terminated and the
\* command run again.
C5_CachedTileIsComplete ==
    (pc = "dt_exists" /\ TileExists(TilePath(z, x, y))) =>
        Complete(tile_files[TilePath(z, x, y)])

\* C6: the tile store never holds the body of an HTTP error response: only
\* the body of a successful GET is written.
C6_OnlySuccessStored ==
    /\ \A p \in DOMAIN tile_files : tile_files[p].status = "ok"
    /\ pc \in {"dt_open", "dt_write"} => response.status = "ok"

\* C7: a download_tile call for a key whose tile file exists, or for which an
\* earlier call has returned, issues no GET.
C7_FetchIdempotent ==
    (InDownloadTile /\ (existedAtCall \/ TilePath(z, x, y) \in returned)) => requests = 0

C7_Witness ==
    /\ pc = "dt_return"
    /\ run = 2
    /\ TilePath(z, x, y) \in returned
    /\ existedAtCall
    /\ requests = 0

\* C8: download_tile returns only when the tile file of its key exists, and
\* when the fetch loop of a zoom level is over every cell of the rectangle
\* has a tile file.
C8_NoTileSkipped ==
    /\ pc = "dt_return" => TileExists(TilePath(z, x, y))
    /\ z \in fetched => \A c \in Cells(rect) : TileExists(TilePath(z, c[1], c[2]))

C8_Witness ==
    /\ z \in fetched
    /\ run = 1
    /\ Cardinality(Cells(rect)) = 4
    /\ \A c \in Cells(rect) : TileExists(TilePath(z, c[1], c[2]))

\* The number of download_tile calls of the current download_tiles for a cell.
CallsFor(c) == Cardinality({i \in 1..Len(callSeq) : callSeq[i] = c})

\* The process is inside the loop of download_tiles or behind it.
InDownloadTiles == pc = "dts_loop" \/ InDownloadTile \/ z \in fetched

\* C9: one download_tiles call calls download_tile at most once per cell while
\* it loops, for no cell outside the rectangle, and exactly once for every
\* cell of the rectangle when the loop is over.
C9_ExactlyOnce ==
    InDownloadTiles =>
        /\ \A i \in 1..Len(callSeq) : callSeq[i] \in Cells(rect) /\ CallsFor(callSeq[i]) = 1
        /\ z \in fetched => \A c \in Cells(rect) : CallsFor(c) = 1

C9_Witness ==
    /\ z \in fetched
    /\ XCount(rect) = 2 /\ YCount(rect) = 1
    /\ Len(callSeq) = 2

\* The zoom levels z_min .. upto, in increasing order.
LevelsUpTo(upto) == [i \in 1..(IF upto >= z_min THEN upto - z_min + 1 ELSE 0) |-> z_min + i - 1]

\* C10: mosaic_tiles of a zoom level runs only after every download_tile call
\* of the level has returned; a level is fetched only after all lower levels
\* of the range are fetched and mosaicked; the levels are completed in
\* increasing order from z_min; Done is logged only after the last level.
C10_StrictSequence ==
    /\ InMosaicTiles => (z \in fetched /\ index = TotalCount(rect)
                         /\ Len(callSeq) = TotalCount(rect))
    /\ (pc = "dts_loop" \/ InDownloadTile \/ InMosaicTiles) =>
          /\ levels = LevelsUpTo(z - 1)
          /\ \A lower \in z_min..(z - 1) : lower \in fetched /\ (mosaic => lower \in mosaicked)
          /\ \A level \in fetched \cup mosaicked : level <= z
    /\ pc = "done" =>
          /\ levels = LevelsUpTo(z_max)
          /\ fetched = z_min..z_max
          /\ mosaic => mosaicked = z_min..z_max

C10_Witness ==
    /\ pc = "done"
    /\ mosaic
    /\ levels = <<0, 1>>
    /\ mosaicked = {0, 1}

\* The raster that mosaic_tiles has composed and saved.
Raster == mosaic_files[MosaicPath(z, rect)]

\* C11: mosaic_tiles composes and saves the raster whatever tiles are missing
\* or undecodable: a cell whose tile file is missing or does not decode stays
\* blank, every other cell is pasted once at the offset
\* (256 * (x - x_min), 256 * (y - y_min)), and without any tile file the
\* raster is blank.
C11_BadTilesLeftBlank ==
    /\ pc # "aborted"
    /\ pc = "ms_rename" =>
          /\ MosaicExists(MosaicPath(z, rect))
          /\ Raster.size = <<256 * XCount(rect), 256 * YCount(rect)>>
          /\ \A c \in Cells(rect) :
                LET p == TilePath(z, c[1], c[2])
                    offset == <<256 * (c[1] - rect.x_min), 256 * (c[2] - rect.y_min)>>
                    good == /\ TileExists(p)
                            /\ tile_files[p].status = "ok"
                            /\ Complete(tile_files[p])
                IN  /\ good => [at |-> offset, tile |-> c] \in Raster.cells
                    /\ ~good => \A cell \in Raster.cells : cell.at # offset /\ cell.tile # c
          /\ \A cell \in Raster.cells : cell.tile \in Cells(rect)
          /\ tile_files = NoFiles => Raster.cells = {}

C11_Witness ==
    /\ pc = "ms_rename"
    /\ Cardinality(Cells(rect)) = 4
    /\ Cardinality(Raster.cells) = 2
    /\ \E p \in DOMAIN tile_files : ~Complete(tile_files[p])
    /\ \E p \in DOMAIN tile_files : tile_files[p].status = "http_error"
    /\ \E c \in Cells(rect) : ~TileExists(TilePath(z, c[1], c[2]))

\* The retry loop of download_tile, lines 83-91.
InRetryLoop(position) == position \in {"dt_request", "dt_backoff"}

\* C12: a failed request never makes download_tile return or raise: the retry
\* loop is left only with a response, for the same tile, so that a provider
\* that stays unreachable keeps the run at that tile; and a run whose requests
\* do not fail for ever completes every zoom level and logs Done.
C12_RetryUntilFetched ==
    /\ [][(InRetryLoop(pc) /\ ~InRetryLoop(pc')) =>
             /\ pc' = "dt_open"
             /\ response' # NoResponse
             /\ <<z, index, x, y>>' = <<z, index, x, y>>]_vars
    /\ <>(pc = "done")

C12_Witness ==
    /\ pc = "dt_return"
    /\ requests >= 3
    /\ wait_time >= 4
    /\ TileExists(TilePath(z, x, y))
    /\ Complete(tile_files[TilePath(z, x, y)])

\* The command line is one that the program has to reject.
InvalidInput ==
    \/ \E lon \in {longitude_min, longitude_max} : lon < -180 \/ lon > 180
    \/ \E lat \in {latitude_min, latitude_max} : lat < -90 \/ lat > 90
    \/ longitude_min > longitude_max
    \/ latitude_min > latitude_max
    \/ z_min < 0 \/ z_max < 0
    \/ provider \notin URL_PATTERN_DICT \cup {"dict"}

\* C13: the first run of a command line with invalid input (coordinates out
\* of range, min and max inverted, a negative zoom level, an unknown provider
\* without --url) issues no request, writes no tile or mosaic file, and does
\* not log Done.
C13_InvalidInputFatal ==
    (run = 1 /\ InvalidInput) =>
        /\ requests = 0
        /\ tile_files = NoFiles /\ mosaic_files = NoFiles
        /\ pc # "done"

\* C14: a download_tile call for a tile whose file exists returns without
\* sleeping or waiting, whatever the elapsed time of the call, and without a
\* request: no time passes between its begin and its return.
C14_CachedSkipImmediate ==
    (InDownloadTile /\ existedAtCall) => (elapsed = callStart /\ requests = 0)

\* The download_tile calls of the current download_tiles, in pairs of an
\* earlier and a later one.
CallPairs == {p \in (1..Len(callSeq)) \X (1..Len(callSeq)) : p[1] < p[2]}

\* C15 as stated: the tiles of a level are fetched x outer, y inner: (x, y)
\* before (x', y') whenever x < x', or x = x' and y < y'.
C15_XOuterYInner ==
    InDownloadTiles =>
        \A p \in CallPairs :
            LET a == callSeq[p[1]]
                b == callSeq[p[2]]
            IN  a[1] < b[1] \/ (a[1] = b[1] /\ a[2] < b[2])

\* C15, amended: the tiles of a level are fetched y outer, x inner: (x, y)
\* before (x', y') whenever y < y', or y = y' and x < x'.
C15_YOuterXInner ==
    InDownloadTiles =>
        \A p \in CallPairs :
            LET a == callSeq[p[1]]
                b == callSeq[p[2]]
            IN  a[2] < b[2] \/ (a[2] = b[2] /\ a[1] < b[1])

C15_Witness ==
    /\ z \in fetched
    /\ XCount(rect) = 2 /\ YCount(rect) = 2
    /\ callSeq = <<<<0, 0>>, <<1, 0>>, <<0, 1>>, <<1, 1>>>>

\* C16: the backoff sleep before the k-th retry of a tile is min(2^(k-1), 3600)
\* seconds: 1 before the first retry, doubled after every failure, at least 1
\* and at most 3600, at 3600 from then on, and 1 again for each new tile.
C16_BackoffSchedule ==
    /\ wait_time >= 1 /\ wait_time <= 3600
    /\ pc = "dt_backoff" => wait_time = Min(Pow2(requests - 1), 3600)
    /\ (pc = "dt_request" /\ requests = 0) => wait_time = 1

C16_Witness ==
    /\ pc = "dt_backoff"
    /\ requests = 14
    /\ wait_time = 3600
    /\ index > 0

\* C17: a tile file that holds a whole body is never rewritten, truncated or
\* deleted by any later step (download_tile for any key, mosaic_tiles, a
\* termination, a rerun over the same or an overlapping rectangle), and a call
\* issues requests only for a key whose file was absent when the call began.
C17_TilesWriteOnce ==
    /\ []((InDownloadTile /\ requests > 0) => ~existedAtCall)
    /\ [][\A p \in DOMAIN tile_files :
             Complete(tile_files[p]) =>
                 (p \in DOMAIN tile_files' /\ tile_files'[p] = tile_files[p])]_vars

C17_Witness ==
    /\ run = 2
    /\ pc = "dt_return"
    /\ existedAtCall
    /\ elapsed > 0
    /\ Complete(tile_files[TilePath(z, x, y)])
    /\ mosaic

\* The temporary mosaic files of the output tree.
TempFiles == {p \in DOMAIN mosaic_files : p[1] = "temp"}

\* C18: a temporary mosaic file exists only while mosaic_tiles georeferences
\* (from the rename of the raster to the rename back or the removal), and on
\* every path on which mosaic_tiles returns no temporary file is left.
C18_TempOnlyWhileGeoreferencing ==
    /\ TempFiles # {} =>
          /\ pc \in {"ms_transform", "ms_fallback", "ms_translate", "ms_remove"}
          /\ TempFiles = {TempPath(z, rect)}
    /\ (pc = "ms_return" \/ ~InMosaicTiles) => TempFiles = {}

C18_Witness ==
    /\ pc = "ms_return"
    /\ translated # NoTranslate
    /\ translated.exit = "nonzero"
    /\ TempFiles = {}
    /\ mosaicked # {}

\* C19: for a bounding box that the assertions accept
\* (-180 <= longitude_min <= longitude_max <= 180) and a zoom level z >= 0, the
\* rectangle has 0 <= x_min <= x_max, its columns lie inside the grid, and
\* download_tile is called with 0 <= x < 2^z.
C19_TileXInsideGrid ==
    /\ pc \in {"download_tiles", "dts_loop", "dt_gate"} =>
          /\ 0 <= rect.x_min /\ rect.x_min <= rect.x_max
          /\ rect.x_max < Pow2(z)
    /\ pc = "dt_gate" => (0 <= x /\ x < Pow2(z))

=============================================================================
